---- MODULE Spec2Model ----
(***************************************************************************)
(* Button library v2.0 (button.c / button.h): debounce and short / long    *)
(* press classification of polled push buttons.                            *)
(*                                                                         *)
(* The caller owns one btn_init_t and one btn_instance_t array; the        *)
(* engine keeps a single static pointer `this` to the init struct.         *)
(***************************************************************************)
EXTENDS Integers, Sequences, FiniteSets, TLC

VARIABLES
  this,    \* static btn_init_t *this: "NULL" or "init"
  init,    \* the caller's btn_init_t
  inst,    \* the caller's btn_instance_t array, indexed 0..InstLen-1
  ret,     \* the last API call and what it returned
  calls,   \* callbacks invoked by the last Button_Update, in order
  hist,    \* per button: the last HistLen raw readings since the last successful Button_Init
  ticks,   \* Button_Update calls since the last successful Button_Init
  fired,   \* per button and callback: invocations since the last successful Button_Init
  reads    \* button indices whose pin the last Button_Update read, in order

vars == <<this, init, inst, ret, calls, hist, ticks, fired, reads>>

(***************************************************************************)
(* Program constants                                                       *)
(***************************************************************************)
BTN_STATE_NONE  == 0
BTN_STATE_SHORT == 1
BTN_STATE_LONG  == 2

BTN_PROCESS_DEF    == 10
BTN_DEBOUNCE_DEF   == 20
BTN_LONG_PRESS_DEF == 1000

\* btn_instance_t btn_inst[2] of the tests
InstLen == 2

\* widths of lock_count (uint8_t) and long_count (uint16_t)
U8  == 256
U16 == 65536

(***************************************************************************)
(* Bounds of the exploration                                               *)
(***************************************************************************)
\* Button_Update calls explored after one Button_Init, two-button runs
MaxTicks == 3
\* Button_Update calls explored after one Button_Init, one-button runs
MaxPressTicks == 8
\* Button_Update calls explored after the only Button_Init, one-button runs
MaxOnceTicks == 9
\* Button_Update calls explored per initialization, two-button press runs
MaxPairTicks == 5
\* Button_Update calls explored per initialization, runs with preempting queries
MaxIrqTicks == 3
\* raw readings remembered per button
HistLen == 10
\* Button_Update calls explored after one Button_Init, one long hold
MaxHoldTicks == 65544
\* released readings explored after the hold
MaxHoldReleased == 4

Keys == 0 .. (InstLen - 1)

\* values a caller writes into the structs before Button_Init (0 = left unset)
ProcessTimes  == {0, 100}
DebounceTimes == {0, 100, 200}
DefDebounceTimes == {0, 200}
LongDefTimes  == {0, 300}
LongTimes     == {0, 200}

CbNames == {"short_release", "long_press", "long_release"}

NoFired == [k \in Keys |-> [c \in CbNames |-> 0]]
NoHist  == [k \in Keys |-> << >>]

(***************************************************************************)
(* Tick conversions (the macros of button.c)                               *)
(***************************************************************************)
BTN_DEBOUNCE_TIME(cfg) == cfg.debounce_time_ms \div cfg.process_time_ms

BTN_LONG_PRESS_TIME(cfg, arr, x) == arr[x].long_press_time_ms \div cfg.process_time_ms

(***************************************************************************)
(* Button_Init                                                             *)
(***************************************************************************)
\* the argument check: NULL init, NULL instance, NULL init->port_read, count 0
InitArgsInvalid_NoCount(initNull, instNull, count) ==
  initNull \/ instNull \/ (~init.port_read)

InitArgsInvalid(initNull, instNull, count) ==
  initNull \/ instNull \/ (~init.port_read) \/ (count = 0)

\* x ? x : def
OrDefault_Always(x, def) == def

OrDefault(x, def) == IF x # 0 THEN x ELSE def

\* the init struct after a successful call
InitLinked_KeepCount(count) ==
  [init EXCEPT
     !.instance          = "inst",
     !.process_time_ms   = OrDefault(init.process_time_ms, BTN_PROCESS_DEF),
     !.debounce_time_ms  = OrDefault(init.debounce_time_ms, BTN_DEBOUNCE_DEF),
     !.long_press_def_ms = OrDefault(init.long_press_def_ms, BTN_LONG_PRESS_DEF)]

InitLinked(count) ==
  [init EXCEPT
     !.instance          = "inst",
     !.count             = count,
     !.process_time_ms   = OrDefault(init.process_time_ms, BTN_PROCESS_DEF),
     !.debounce_time_ms  = OrDefault(init.debounce_time_ms, BTN_DEBOUNCE_DEF),
     !.long_press_def_ms = OrDefault(init.long_press_def_ms, BTN_LONG_PRESS_DEF)]

\* one button after the loop body of Button_Init: state.act is not assigned
InstanceReset(b, long_press_def_ms) ==
  [b EXCEPT
     !.locked             = 0,
     !.prew               = BTN_STATE_NONE,
     !.long_count         = 0,
     !.lock_count         = 0,
     !.long_press_time_ms = OrDefault(b.long_press_time_ms, long_press_def_ms)]

Button_Init_LinkFirst(initNull, instNull, count) ==
  /\ count \in 0 .. InstLen
  /\ IF InitArgsInvalid(initNull, instNull, count)
     THEN /\ ret' = [op |-> "Button_Init", val |-> -1, key |-> 0]
          /\ this' = IF initNull THEN this ELSE "init"
          /\ init' = IF initNull THEN init ELSE [init EXCEPT !.count = count]
          /\ UNCHANGED <<inst, calls, hist, ticks, fired, reads>>
     ELSE /\ this' = "init"
          /\ init' = InitLinked(count)
          /\ inst' = [k \in Keys |->
                        IF k < count
                        THEN InstanceReset(inst[k], InitLinked(count).long_press_def_ms)
                        ELSE inst[k]]
          /\ ret' = [op |-> "Button_Init", val |-> 0, key |-> 0]
          /\ calls' = << >>
          /\ reads' = << >>
          /\ hist' = NoHist
          /\ ticks' = 0
          /\ fired' = NoFired

Button_Init(initNull, instNull, count) ==
  /\ count \in 0 .. InstLen
  /\ IF InitArgsInvalid(initNull, instNull, count)
     THEN /\ ret' = [op |-> "Button_Init", val |-> -1, key |-> 0]
          /\ UNCHANGED <<this, init, inst, calls, hist, ticks, fired, reads>>
     ELSE /\ this' = "init"
          /\ init' = InitLinked(count)
          /\ inst' = [k \in Keys |->
                        IF k < count
                        THEN InstanceReset(inst[k], InitLinked(count).long_press_def_ms)
                        ELSE inst[k]]
          /\ ret' = [op |-> "Button_Init", val |-> 0, key |-> 0]
          /\ calls' = << >>
          /\ reads' = << >>
          /\ hist' = NoHist
          /\ ticks' = 0
          /\ fired' = NoFired

(***************************************************************************)
(* Button_Update                                                           *)
(***************************************************************************)
\* the callback is invoked only when its pointer is not NULL
Invoke(cfg, name) == IF cfg[name] THEN <<name>> ELSE << >>

PressedTick_Refill(b, D, T, cfg) ==
  LET lc     == IF b.locked = 0 THEN (b.lock_count + 1) % U8
                ELSE IF D >= 1 THEN D ELSE 1
      locked == IF b.locked = 0 /\ lc >= D THEN 1 ELSE b.locked
      count  == locked = 1 /\ b.prew = BTN_STATE_SHORT
      lng    == IF count THEN (b.long_count + 1) % U16 ELSE b.long_count
      long   == count /\ lng >= T
  IN  [b  |-> [b EXCEPT !.lock_count = lc,
                        !.locked     = locked,
                        !.long_count = lng,
                        !.act        = IF long THEN BTN_STATE_LONG ELSE b.act,
                        !.prew       = BTN_STATE_SHORT],
       ev |-> IF long THEN Invoke(cfg, "long_press") ELSE << >>]

PressedTick_CountWhileLocked(b, D, T, cfg) ==
  LET lc     == (b.lock_count + 1) % U8
      locked == IF b.locked = 0 /\ lc >= D THEN 1 ELSE b.locked
      count  == locked = 1 /\ b.prew = BTN_STATE_SHORT
      lng    == IF count THEN (b.long_count + 1) % U16 ELSE b.long_count
      long   == count /\ lng >= T
  IN  [b  |-> [b EXCEPT !.lock_count = lc,
                        !.locked     = locked,
                        !.long_count = lng,
                        !.act        = IF long THEN BTN_STATE_LONG ELSE b.act,
                        !.prew       = BTN_STATE_SHORT],
       ev |-> IF long THEN Invoke(cfg, "long_press") ELSE << >>]

PressedTick_StrictDebounce(b, D, T, cfg) ==
  LET lc     == IF b.locked = 0 THEN (b.lock_count + 1) % U8 ELSE b.lock_count
      locked == IF b.locked = 0 /\ lc > D THEN 1 ELSE b.locked
      count  == locked = 1 /\ b.prew = BTN_STATE_SHORT
      lng    == IF count THEN (b.long_count + 1) % U16 ELSE b.long_count
      long   == count /\ lng >= T
  IN  [b  |-> [b EXCEPT !.lock_count = lc,
                        !.locked     = locked,
                        !.long_count = lng,
                        !.act        = IF long THEN BTN_STATE_LONG ELSE b.act,
                        !.prew       = BTN_STATE_SHORT],
       ev |-> IF long THEN Invoke(cfg, "long_press") ELSE << >>]

PressedTick_ActIfCallback(b, D, T, cfg) ==
  LET lc     == IF b.locked = 0 THEN (b.lock_count + 1) % U8 ELSE b.lock_count
      locked == IF b.locked = 0 /\ lc >= D THEN 1 ELSE b.locked
      count  == locked = 1 /\ b.prew = BTN_STATE_SHORT
      lng    == IF count THEN (b.long_count + 1) % U16 ELSE b.long_count
      long   == count /\ lng >= T /\ cfg.long_press
  IN  [b  |-> [b EXCEPT !.lock_count = lc,
                        !.locked     = locked,
                        !.long_count = lng,
                        !.act        = IF long THEN BTN_STATE_LONG ELSE b.act,
                        !.prew       = BTN_STATE_SHORT],
       ev |-> IF long THEN Invoke(cfg, "long_press") ELSE << >>]

\* raw reading pressed: lines 78-98
PressedTick(b, D, T, cfg) ==
  LET lc     == IF b.locked = 0 THEN (b.lock_count + 1) % U8 ELSE b.lock_count
      locked == IF b.locked = 0 /\ lc >= D THEN 1 ELSE b.locked
      count  == locked = 1 /\ b.prew = BTN_STATE_SHORT
      lng    == IF count THEN (b.long_count + 1) % U16 ELSE b.long_count
      long   == count /\ lng >= T
  IN  [b  |-> [b EXCEPT !.lock_count = lc,
                        !.locked     = locked,
                        !.long_count = lng,
                        !.act        = IF long THEN BTN_STATE_LONG ELSE b.act,
                        !.prew       = BTN_STATE_SHORT],
       ev |-> IF long THEN Invoke(cfg, "long_press") ELSE << >>]

ReleasedTick_EarlyFinalize(b, D, T, cfg) ==
  IF b.locked # 0
  THEN IF b.lock_count > 1
       THEN [b |-> [b EXCEPT !.lock_count = b.lock_count - 1], ev |-> << >>]
       ELSE IF b.long_count < T
            THEN IF b.lock_count = 0
                 THEN [b  |-> [b EXCEPT !.locked = 0, !.act = BTN_STATE_SHORT],
                       ev |-> Invoke(cfg, "short_release")]
                 ELSE [b |-> [b EXCEPT !.locked = 0], ev |-> << >>]
            ELSE IF b.act = BTN_STATE_LONG
                 THEN [b  |-> [b EXCEPT !.locked = 0],
                       ev |-> Invoke(cfg, "long_release")]
                 ELSE [b |-> [b EXCEPT !.locked = 0], ev |-> << >>]
  ELSE [b |-> [b EXCEPT !.long_count = 0], ev |-> << >>]

ReleasedTick_KeepLong(b, D, T, cfg) ==
  IF b.locked # 0
  THEN IF b.lock_count # 0
       THEN [b |-> [b EXCEPT !.lock_count = b.lock_count - 1], ev |-> << >>]
       ELSE IF b.long_count < T
            THEN IF b.lock_count = 0
                 THEN [b  |-> [b EXCEPT !.locked = 0, !.act = BTN_STATE_SHORT],
                       ev |-> Invoke(cfg, "short_release")]
                 ELSE [b |-> [b EXCEPT !.locked = 0], ev |-> << >>]
            ELSE IF b.act = BTN_STATE_LONG
                 THEN [b  |-> [b EXCEPT !.locked = 0],
                       ev |-> Invoke(cfg, "long_release")]
                 ELSE [b |-> [b EXCEPT !.locked = 0], ev |-> << >>]
  ELSE [b |-> b, ev |-> << >>]

ReleasedTick_IdleClearsAct(b, D, T, cfg) ==
  IF b.locked # 0
  THEN IF b.lock_count # 0
       THEN [b |-> [b EXCEPT !.lock_count = b.lock_count - 1], ev |-> << >>]
       ELSE IF b.long_count < T
            THEN IF b.lock_count = 0
                 THEN [b  |-> [b EXCEPT !.locked = 0, !.act = BTN_STATE_SHORT],
                       ev |-> Invoke(cfg, "short_release")]
                 ELSE [b |-> [b EXCEPT !.locked = 0], ev |-> << >>]
            ELSE IF b.act = BTN_STATE_LONG
                 THEN [b  |-> [b EXCEPT !.locked = 0],
                       ev |-> Invoke(cfg, "long_release")]
                 ELSE [b |-> [b EXCEPT !.locked = 0], ev |-> << >>]
  ELSE [b |-> [b EXCEPT !.long_count = 0, !.act = BTN_STATE_NONE], ev |-> << >>]

ReleasedTick_LeThreshold(b, D, T, cfg) ==
  IF b.locked # 0
  THEN IF b.lock_count # 0
       THEN [b |-> [b EXCEPT !.lock_count = b.lock_count - 1], ev |-> << >>]
       ELSE IF b.long_count <= T
            THEN IF b.lock_count = 0
                 THEN [b  |-> [b EXCEPT !.locked = 0, !.act = BTN_STATE_SHORT],
                       ev |-> Invoke(cfg, "short_release")]
                 ELSE [b |-> [b EXCEPT !.locked = 0], ev |-> << >>]
            ELSE IF b.act = BTN_STATE_LONG
                 THEN [b  |-> [b EXCEPT !.locked = 0],
                       ev |-> Invoke(cfg, "long_release")]
                 ELSE [b |-> [b EXCEPT !.locked = 0], ev |-> << >>]
  ELSE [b |-> [b EXCEPT !.long_count = 0], ev |-> << >>]

ReleasedTick_ResetLong(b, D, T, cfg) ==
  IF b.locked # 0
  THEN IF b.lock_count # 0
       THEN [b  |-> [b EXCEPT !.lock_count = b.lock_count - 1, !.long_count = 0],
             ev |-> << >>]
       ELSE IF b.long_count < T
            THEN IF b.lock_count = 0
                 THEN [b  |-> [b EXCEPT !.locked = 0, !.act = BTN_STATE_SHORT],
                       ev |-> Invoke(cfg, "short_release")]
                 ELSE [b |-> [b EXCEPT !.locked = 0], ev |-> << >>]
            ELSE IF b.act = BTN_STATE_LONG
                 THEN [b  |-> [b EXCEPT !.locked = 0],
                       ev |-> Invoke(cfg, "long_release")]
                 ELSE [b |-> [b EXCEPT !.locked = 0], ev |-> << >>]
  ELSE [b |-> [b EXCEPT !.long_count = 0], ev |-> << >>]

ReleasedTick_NoDebounce(b, D, T, cfg) ==
  IF b.locked # 0
  THEN IF b.long_count < T
       THEN [b  |-> [b EXCEPT !.locked = 0, !.lock_count = 0, !.act = BTN_STATE_SHORT],
             ev |-> Invoke(cfg, "short_release")]
       ELSE [b  |-> [b EXCEPT !.locked = 0, !.lock_count = 0],
             ev |-> IF b.act = BTN_STATE_LONG THEN Invoke(cfg, "long_release") ELSE << >>]
  ELSE [b |-> [b EXCEPT !.long_count = 0], ev |-> << >>]

\* raw reading released: lines 99-131
ReleasedTick(b, D, T, cfg) ==
  IF b.locked # 0
  THEN IF b.lock_count # 0
       THEN [b |-> [b EXCEPT !.lock_count = b.lock_count - 1], ev |-> << >>]
       ELSE IF b.long_count < T
            THEN IF b.lock_count = 0
                 THEN [b  |-> [b EXCEPT !.locked = 0, !.act = BTN_STATE_SHORT],
                       ev |-> Invoke(cfg, "short_release")]
                 ELSE [b |-> [b EXCEPT !.locked = 0], ev |-> << >>]
            ELSE IF b.act = BTN_STATE_LONG
                 THEN [b  |-> [b EXCEPT !.locked = 0],
                       ev |-> Invoke(cfg, "long_release")]
                 ELSE [b |-> [b EXCEPT !.locked = 0], ev |-> << >>]
  ELSE [b |-> [b EXCEPT !.long_count = 0], ev |-> << >>]

\* one pass of the while body for one button, given what port_read returned
ButtonTick(b, pressed, D, T, cfg) ==
  IF pressed THEN PressedTick(b, D, T, cfg) ELSE ReleasedTick(b, D, T, cfg)

AtCallback_BeforeCommit(b, r, pressed) == b

\* the button as its callback finds it, r being the outcome of the tick: the
\* pressed branch invokes long_press before assigning state.prew (line 97),
\* the released branch writes nothing after its callbacks
AtCallback(b, r, pressed) == IF pressed THEN [r.b EXCEPT !.prew = b.prew] ELSE r.b

RECURSIVE UpdateLoop_WrongPin(_, _, _, _)
UpdateLoop_WrongPin(key, arr, log, raw) ==
  IF key < init.count
  THEN LET r == ButtonTick(arr[key], raw[0], BTN_DEBOUNCE_TIME(init),
                           BTN_LONG_PRESS_TIME(init, arr, key), init)
           rest == UpdateLoop_WrongPin(key + 1,
                      [arr EXCEPT ![key] = r.b],
                      log \o [n \in 1 .. Len(r.ev) |-> [cb |-> r.ev[n], key |-> key]],
                      raw)
       IN  [rest EXCEPT !.reads = <<0>> \o rest.reads]
  ELSE [inst |-> arr, calls |-> log, reads |-> << >>]

RECURSIVE UpdateLoop_Descending(_, _, _, _)
UpdateLoop_Descending(key, arr, log, raw) ==
  IF key < init.count
  THEN LET j == init.count - 1 - key
           r == ButtonTick(arr[j], raw[j], BTN_DEBOUNCE_TIME(init),
                           BTN_LONG_PRESS_TIME(init, arr, j), init)
           rest == UpdateLoop_Descending(key + 1,
                      [arr EXCEPT ![j] = r.b],
                      log \o [n \in 1 .. Len(r.ev) |-> [cb |-> r.ev[n], key |-> j]],
                      raw)
       IN  [rest EXCEPT !.reads = <<j>> \o rest.reads]
  ELSE [inst |-> arr, calls |-> log, reads |-> << >>]

\* while (key < this->count) { ... key++; }; seen holds, for each callback
\* invoked, the instance array as it is at that moment
RECURSIVE UpdateLoop(_, _, _, _)
UpdateLoop(key, arr, log, raw) ==
  IF key < init.count
  THEN LET r == ButtonTick(arr[key], raw[key], BTN_DEBOUNCE_TIME(init),
                           BTN_LONG_PRESS_TIME(init, arr, key), init)
           rest == UpdateLoop(key + 1,
                      [arr EXCEPT ![key] = r.b],
                      log \o [n \in 1 .. Len(r.ev) |-> [cb |-> r.ev[n], key |-> key]],
                      raw)
       IN  [rest EXCEPT
              !.reads = <<key>> \o rest.reads,
              !.seen  = [n \in 1 .. Len(r.ev) |->
                           [arr EXCEPT ![key] = AtCallback(arr[key], r, raw[key])]]
                        \o rest.seen]
  ELSE [inst |-> arr, calls |-> log, reads |-> << >>, seen |-> << >>]

\* the remembered readings after one more
Remember(h, pressed) ==
  IF Len(h) < HistLen THEN Append(h, pressed) ELSE Append(Tail(h), pressed)

\* number of invocations of callback c with button code k in a log
Count(log, c, k) == Cardinality({n \in 1 .. Len(log) : log[n].cb = c /\ log[n].key = k})

\* what port_read may return in one Button_Update: one reading per configured button
RawInputs == {raw \in [Keys -> BOOLEAN] : \A k \in Keys : k >= init.count => ~raw[k]}

\* readings of one uninterrupted hold of button 0 from the first tick on,
\* followed by at most MaxHoldReleased released readings
HoldInputs ==
  {raw \in RawInputs :
     /\ raw[0] => \A n \in 1 .. Len(hist[0]) : hist[0][n]
     /\ ~raw[0] => Cardinality({n \in 1 .. Len(hist[0]) : ~hist[0][n]}) < MaxHoldReleased}

Button_Update(bound, raws) ==
  /\ this = "init"
  /\ ticks < bound
  /\ \E raw \in raws :
       LET r == UpdateLoop(0, inst, << >>, raw)
       IN  /\ inst' = r.inst
           /\ calls' = r.calls
           /\ reads' = r.reads
           /\ hist' = [k \in Keys |->
                         IF k < init.count THEN Remember(hist[k], raw[k]) ELSE hist[k]]
           /\ fired' = [k \in Keys |-> [c \in CbNames |->
                         fired[k][c] + Count(r.calls, c, k)]]
  /\ ticks' = ticks + 1
  /\ ret' = [op |-> "Button_Update", val |-> 0, key |-> 0]
  /\ UNCHANGED <<this, init>>

(***************************************************************************)
(* Button_EventGet                                                         *)
(***************************************************************************)
EventGet_ArrayBound(key) == IF key >= InstLen THEN 0 ELSE inst[key].act

EventGet(key) == IF key >= init.count THEN 0 ELSE inst[key].act

Button_EventGet_Consume(key) ==
  /\ this = "init"
  /\ ret' = [op |-> "Button_EventGet", val |-> EventGet(key), key |-> key]
  /\ inst' = [k \in Keys |->
                IF k = key /\ key < init.count
                THEN [inst[k] EXCEPT !.act = BTN_STATE_NONE]
                ELSE inst[k]]
  /\ UNCHANGED <<this, init, calls, hist, ticks, fired, reads>>

Button_EventGet(key) ==
  /\ this = "init"
  /\ ret' = [op |-> "Button_EventGet", val |-> EventGet(key), key |-> key]
  /\ UNCHANGED <<this, init, inst, calls, hist, ticks, fired, reads>>

(***************************************************************************)
(* The caller                                                              *)
(***************************************************************************)
\* btn_init.port_read = dummy_port_read; before a (re)try of Button_Init
Caller_SetPortRead ==
  /\ this = "NULL"
  /\ ~init.port_read
  /\ init' = [init EXCEPT !.port_read = TRUE]
  /\ ret' = [op |-> "Caller_SetPortRead", val |-> 0, key |-> 0]
  /\ UNCHANGED <<this, inst, calls, hist, ticks, fired, reads>>

\* the GPIO port and pin the caller's initializer gives each button
Ports == [k \in Keys |-> IF k = 0 THEN "0xdeadbeaf" ELSE "0x12345678"]

Pins == [k \in Keys |-> IF k = 0 THEN 13 ELSE 5]

\* the structs as the caller's initializers leave them
CallerInit(P, Db, Ld, Lt, Cbs) ==
  /\ this = "NULL"
  /\ \E cb \in Cbs :
       init \in [instance          : {"NULL"},
                 count             : {0},
                 process_time_ms   : P,
                 debounce_time_ms  : Db,
                 long_press_def_ms : Ld,
                 port_read         : BOOLEAN,
                 short_release     : {cb.short_release},
                 long_release      : {cb.long_release},
                 long_press        : {cb.long_press}]
  /\ inst \in [Keys -> [act : {BTN_STATE_NONE}, prew : {BTN_STATE_NONE}, locked : {0},
                        lock_count : {0}, long_count : {0},
                        long_press_time_ms : Lt,
                        port : {Ports[k] : k \in Keys}, pin : {Pins[k] : k \in Keys}]]
  /\ \A k \in Keys : inst[k].port = Ports[k] /\ inst[k].pin = Pins[k]
  /\ ret = [op |-> "none", val |-> 0, key |-> 0]
  /\ calls = << >>
  /\ reads = << >>
  /\ hist = NoHist
  /\ ticks = 0
  /\ fired = NoFired

\* every callback registered
CbAll == {[short_release |-> TRUE, long_release |-> TRUE, long_press |-> TRUE]}

\* every callback registered, or none
CbAllOrNone == {[short_release |-> b, long_release |-> b, long_press |-> b] : b \in BOOLEAN}

(***************************************************************************)
(* Spec: the API on a two-button array, all defaulting combinations        *)
(***************************************************************************)
Init == CallerInit(ProcessTimes, DefDebounceTimes, LongDefTimes, LongTimes, CbAll)

Next ==
  \/ \E initNull \in BOOLEAN, instNull \in BOOLEAN, count \in 0 .. InstLen :
       Button_Init(initNull, instNull, count)
  \/ Button_Update(MaxTicks, RawInputs)
  \/ \E key \in 0 .. InstLen : Button_EventGet(key)
  \/ Caller_SetPortRead

Spec == Init /\ [][Next]_vars

(***************************************************************************)
(* SpecPress: one configured button, 100 ms tick, longer runs              *)
(***************************************************************************)
InitPress ==
  /\ CallerInit({100}, DebounceTimes, {300}, LongTimes, CbAllOrNone)
  /\ inst[1].long_press_time_ms = 0

NextPress ==
  \/ \E initNull \in BOOLEAN, instNull \in BOOLEAN, count \in 0 .. 1 :
       Button_Init(initNull, instNull, count)
  \/ Button_Update(MaxPressTicks, RawInputs)
  \/ \E key \in 0 .. InstLen : Button_EventGet(key)
  \/ Caller_SetPortRead

SpecPress == InitPress /\ [][NextPress]_vars

(***************************************************************************)
(* SpecOnce: as SpecPress, but the engine is initialized only once         *)
(***************************************************************************)
NextOnce ==
  \/ /\ this = "NULL"
     /\ \E initNull \in BOOLEAN, instNull \in BOOLEAN, count \in 0 .. 1 :
          Button_Init(initNull, instNull, count)
  \/ Button_Update(MaxOnceTicks, RawInputs)
  \/ \E key \in 0 .. InstLen : Button_EventGet(key)
  \/ Caller_SetPortRead

SpecOnce == InitPress /\ [][NextOnce]_vars

(***************************************************************************)
(* SpecCb: one-button runs under every subset of registered callbacks      *)
(***************************************************************************)
\* each of the three callback pointers NULL or not
CbAny == [short_release : BOOLEAN, long_release : BOOLEAN, long_press : BOOLEAN]

InitCb ==
  /\ CallerInit({100}, {100}, {300}, LongTimes, CbAny)
  /\ inst[1].long_press_time_ms = 0

SpecCb == InitCb /\ [][NextPress]_vars

(***************************************************************************)
(* SpecPair: two buttons pressed and released independently, D = 0, T = 2  *)
(***************************************************************************)
InitPair == CallerInit({100}, {0}, {200}, {200}, CbAll)

NextPair ==
  \/ \E initNull \in BOOLEAN, instNull \in BOOLEAN, count \in 0 .. InstLen :
       Button_Init(initNull, instNull, count)
  \/ Button_Update(MaxPairTicks, RawInputs)
  \/ \E key \in 0 .. InstLen : Button_EventGet(key)
  \/ Caller_SetPortRead

SpecPair == InitPair /\ [][NextPair]_vars

(***************************************************************************)
(* Button_EventGet called from a context that preempts Button_Update       *)
(***************************************************************************)
\* the record a sequence of stores ends with, b if there was no store
After(stores, b) == IF stores = << >> THEN b ELSE stores[Len(stores)]

PressedStores_ShortFirst(b, D, T) ==
  LET s1 == IF b.locked = 0
            THEN <<[b EXCEPT !.lock_count = (b.lock_count + 1) % U8]>> ELSE << >>
      b1 == After(s1, b)
      s2 == IF b.locked = 0 /\ b1.lock_count >= D
            THEN <<[b1 EXCEPT !.locked = 1]>> ELSE << >>
      b2 == After(s2, b1)
      count == b2.locked = 1 /\ b2.prew = BTN_STATE_SHORT
      s3 == IF count
            THEN <<[b2 EXCEPT !.long_count = (b2.long_count + 1) % U16]>> ELSE << >>
      b3 == After(s3, b2)
      s4 == IF count /\ b3.long_count >= T
            THEN <<[b3 EXCEPT !.act = BTN_STATE_SHORT], [b3 EXCEPT !.act = BTN_STATE_LONG]>>
            ELSE << >>
      b4 == After(s4, b3)
  IN  s1 \o s2 \o s3 \o s4 \o <<[b4 EXCEPT !.prew = BTN_STATE_SHORT]>>

\* the button record after each store of the pressed branch, in program
\* order: lines 82, 84, 91, 93, 97
PressedStores(b, D, T) ==
  LET s1 == IF b.locked = 0
            THEN <<[b EXCEPT !.lock_count = (b.lock_count + 1) % U8]>> ELSE << >>
      b1 == After(s1, b)
      s2 == IF b.locked = 0 /\ b1.lock_count >= D
            THEN <<[b1 EXCEPT !.locked = 1]>> ELSE << >>
      b2 == After(s2, b1)
      count == b2.locked = 1 /\ b2.prew = BTN_STATE_SHORT
      s3 == IF count
            THEN <<[b2 EXCEPT !.long_count = (b2.long_count + 1) % U16]>> ELSE << >>
      b3 == After(s3, b2)
      s4 == IF count /\ b3.long_count >= T
            THEN <<[b3 EXCEPT !.act = BTN_STATE_LONG]>> ELSE << >>
      b4 == After(s4, b3)
  IN  s1 \o s2 \o s3 \o s4 \o <<[b4 EXCEPT !.prew = BTN_STATE_SHORT]>>

\* the button record after each store of the released branch: lines 105,
\* 109, 112, 129
ReleasedStores(b, D, T) ==
  IF b.locked # 0
  THEN IF b.lock_count # 0
       THEN <<[b EXCEPT !.lock_count = b.lock_count - 1]>>
       ELSE LET b1 == [b EXCEPT !.locked = 0]
            IN  IF b1.long_count < T /\ b1.lock_count = 0
                THEN <<b1, [b1 EXCEPT !.act = BTN_STATE_SHORT]>>
                ELSE <<b1>>
  ELSE <<[b EXCEPT !.long_count = 0]>>

TickStores(b, pressed, D, T) ==
  IF pressed THEN PressedStores(b, D, T) ELSE ReleasedStores(b, D, T)

\* the instance array after each store of one Button_Update, in program order
RECURSIVE UpdateStores(_, _, _)
UpdateStores(key, arr, raw) ==
  IF key < init.count
  THEN LET st  == TickStores(arr[key], raw[key], BTN_DEBOUNCE_TIME(init),
                             BTN_LONG_PRESS_TIME(init, arr, key))
           mem == [n \in 1 .. Len(st) |-> [arr EXCEPT ![key] = st[n]]]
       IN  mem \o UpdateStores(key + 1, After(mem, arr), raw)
  ELSE << >>

\* what Button_EventGet(key) reads from the instance array arr
EventGetIn(arr, key) == IF key >= init.count THEN 0 ELSE arr[key].act

\* a Button_Update during which Button_EventGet(key) runs, between two of
\* its stores, before the first or after the last
Button_Update_Preempted(bound, raws) ==
  /\ this = "init"
  /\ ticks < bound
  /\ \E raw \in raws :
       LET r   == UpdateLoop(0, inst, << >>, raw)
           mem == <<inst>> \o UpdateStores(0, inst, raw)
       IN  /\ inst' = r.inst
           /\ calls' = r.calls
           /\ reads' = r.reads
           /\ hist' = [k \in Keys |->
                         IF k < init.count THEN Remember(hist[k], raw[k]) ELSE hist[k]]
           /\ fired' = [k \in Keys |-> [c \in CbNames |->
                         fired[k][c] + Count(r.calls, c, k)]]
           /\ \E key \in Keys, p \in 1 .. Len(mem) :
                ret' = [op |-> "Button_EventGet_In_Update",
                        val |-> EventGetIn(mem[p], key), key |-> key]
  /\ ticks' = ticks + 1
  /\ UNCHANGED <<this, init>>

(***************************************************************************)
(* SpecIrq: two buttons updated from a timer, queried from a preempting    *)
(* context; D = 0, T = 2                                                   *)
(***************************************************************************)
InitIrq == InitPair /\ init.port_read

NextIrq ==
  \/ \E count \in 1 .. InstLen : Button_Init(FALSE, FALSE, count)
  \/ Button_Update(MaxIrqTicks, RawInputs)
  \/ Button_Update_Preempted(MaxIrqTicks, RawInputs)

SpecIrq == InitIrq /\ [][NextIrq]_vars

(***************************************************************************)
(* SpecHold: one configured button held from the first tick, then released *)
(***************************************************************************)
InitHold ==
  /\ CallerInit({100}, {100}, {200}, {0}, CbAll)
  /\ init.port_read

NextHold ==
  \/ Button_Init(FALSE, FALSE, 1)
  \/ Button_Update(MaxHoldTicks, HoldInputs)
  \/ Button_EventGet(0)

SpecHold == InitHold /\ [][NextHold]_vars

(***************************************************************************)
(* Properties                                                              *)
(***************************************************************************)
InitOk   == ret.op = "Button_Init" /\ ret.val = 0
InitFail == ret.op = "Button_Init" /\ ret.val = -1

\* C1: Button_Init returns -1 when init is NULL, instance is NULL,
\* init->port_read is NULL or count is 0, and 0 for every other call.
C1_InitReturn ==
  [][\A initNull \in BOOLEAN, instNull \in BOOLEAN, count \in 0 .. InstLen :
       Button_Init(initNull, instNull, count) =>
         ret'.val = IF initNull \/ instNull \/ ~init.port_read \/ count = 0
                    THEN -1 ELSE 0]_vars

\* an accepted call with two buttons
C1_Witness == InitOk /\ init.count = 2 /\ init.port_read

\* C2: a Button_Init that returns -1 leaves the binding, the init struct and
\* every button exactly as they were, also after an earlier successful call.
C2_FailedInitChangesNothing ==
  [][(ret'.op = "Button_Init" /\ ret'.val = -1) => UNCHANGED <<this, init, inst>>]_vars

\* a refused call after an earlier success and some ticks
C2_Witness == InitFail /\ this = "init" /\ ticks > 0 /\ inst[0].lock_count > 0

\* C3: a successful Button_Init keeps every non-zero timing value, replaces a
\* zero by its default (10, 20, 1000), gives each configured button its own
\* non-zero long_press_time_ms or else the defaulted long_press_def_ms, and
\* leaves process_time_ms non-zero.
C3_InitDefaults ==
  [][(ret'.op = "Button_Init" /\ ret'.val = 0) =>
       /\ init'.process_time_ms =
            (IF init.process_time_ms # 0 THEN init.process_time_ms ELSE 10)
       /\ init'.debounce_time_ms =
            (IF init.debounce_time_ms # 0 THEN init.debounce_time_ms ELSE 20)
       /\ init'.long_press_def_ms =
            (IF init.long_press_def_ms # 0 THEN init.long_press_def_ms ELSE 1000)
       /\ init'.process_time_ms # 0
       /\ \A k \in Keys : k < init'.count =>
            inst'[k].long_press_time_ms =
              (IF inst[k].long_press_time_ms # 0
               THEN inst[k].long_press_time_ms
               ELSE init'.long_press_def_ms)]_vars

\* defaults applied next to a per-button override
C3_Witness ==
  /\ InitOk /\ init.count = 2
  /\ init.process_time_ms = 10 /\ init.debounce_time_ms = 20
  /\ init.long_press_def_ms = 1000
  /\ inst[0].long_press_time_ms = 1000 /\ inst[1].long_press_time_ms = 200

\* C4: right after every successful Button_Init every configured button is
\* unlocked with lock_count 0, long_count 0, previous state NONE and active
\* state NONE.
C4_InitZeroesRuntimeState ==
  InitOk => \A k \in Keys : k < init.count =>
    /\ inst[k].locked = 0
    /\ inst[k].lock_count = 0
    /\ inst[k].long_count = 0
    /\ inst[k].prew = BTN_STATE_NONE
    /\ inst[k].act = BTN_STATE_NONE

\* C5: after a successful Button_Init, Button_EventGet(key) returns NONE for
\* key >= count and the button's active state for key < count.
C5_EventGetRange ==
  ret.op = "Button_EventGet" =>
    ret.val = (IF ret.key >= init.count THEN BTN_STATE_NONE ELSE inst[ret.key].act)

\* a query past the configured count, of a slot whose active state is not NONE
C5_Witness ==
  /\ ret.op = "Button_EventGet" /\ ret.key = 1 /\ init.count = 1
  /\ inst[1].act # BTN_STATE_NONE /\ ret.val = BTN_STATE_NONE

\* C6: Button_EventGet changes no engine or button state, and consecutive
\* Button_EventGet calls for one key return the same value.
C6_EventGetReadOnly ==
  /\ [][ret'.op = "Button_EventGet" => UNCHANGED <<this, init, inst>>]_vars
  /\ [][(ret.op = "Button_EventGet" /\ ret'.op = "Button_EventGet" /\ ret'.key = ret.key)
          => ret'.val = ret.val]_vars

\* a query that returned a non-NONE state
C6_Witness == ret.op = "Button_EventGet" /\ ret.val = BTN_STATE_LONG

\* readings of a history that are pressed
NPressed(h) == Cardinality({n \in 1 .. Len(h) : h[n]})

\* a history of pressed readings followed only by released readings
PressThenRelease(h) == \A n \in 1 .. Len(h) : h[n] <=> (n <= NPressed(h))

\* hist[k] is everything button k has read since Button_Init
Complete(k) == Len(hist[k]) = ticks

AllCallbacks == init.short_release /\ init.long_press /\ init.long_release

\* C7: a freshly initialized button with debounce ticks D >= 1 that reads
\* pressed on p consecutive ticks, D <= p < T, and released from then on
\* gets short_release exactly once, on the (D+1)-th released tick, never
\* long_press or long_release, and Button_EventGet returns SHORT from that tick on.
C7_ShortPress ==
  this = "init" => \A k \in Keys : k < init.count =>
    LET h == hist[k]
        p == NPressed(h)
        m == Len(h) - p
        D == BTN_DEBOUNCE_TIME(init)
        T == BTN_LONG_PRESS_TIME(init, inst, k)
    IN  (Complete(k) /\ PressThenRelease(h) /\ AllCallbacks /\ D >= 1 /\ D <= p /\ p < T) =>
          /\ fired[k].short_release = (IF m >= D + 1 THEN 1 ELSE 0)
          /\ fired[k].long_press = 0
          /\ fired[k].long_release = 0
          /\ (m >= D + 1 => EventGet(k) = BTN_STATE_SHORT)

\* two pressed ticks with D = 2 and T = 3, then four released ticks
C7_Witness ==
  /\ this = "init" /\ init.count = 1 /\ AllCallbacks
  /\ BTN_DEBOUNCE_TIME(init) = 2 /\ BTN_LONG_PRESS_TIME(init, inst, 0) = 3
  /\ hist[0] = <<TRUE, TRUE, FALSE, FALSE, FALSE, FALSE>> /\ ticks = 6
  /\ fired[0].short_release = 1 /\ inst[0].act = BTN_STATE_SHORT

\* C8: while a button is held with every reading pressed, long_press is
\* invoked exactly once, on the tick where long_count first reaches the
\* threshold, and not again later in the hold.
C8_LongPressOnce ==
  this = "init" => \A k \in Keys : k < init.count =>
    LET h == hist[k]
        T == BTN_LONG_PRESS_TIME(init, inst, k)
    IN  (Complete(k) /\ NPressed(h) = Len(h) /\ init.long_press) =>
          fired[k].long_press = (IF inst[k].long_count >= T THEN 1 ELSE 0)

\* C9: after a hold in which long_count reached the threshold, followed by
\* released readings, long_release is invoked exactly once (on the tick the
\* release is finalized), short_release is not invoked, and Button_EventGet
\* returns LONG from the long-press tick on.  (Under SpecHold every history
\* is one hold followed by released readings.)
C9_LongRelease ==
  (this = "init" /\ fired[0].long_press >= 1) =>
    LET m == Cardinality({n \in 1 .. Len(hist[0]) : ~hist[0][n]})
        D == BTN_DEBOUNCE_TIME(init)
    IN  /\ fired[0].short_release = 0
        /\ EventGet(0) = BTN_STATE_LONG
        /\ fired[0].long_release = (IF m >= D + 1 THEN 1 ELSE 0)

\* callbacks of a log invoked with button code k, in order
CallsOf(log, k) ==
  LET sel == SelectSeq(log, LAMBDA e : e.key = k)
  IN  [n \in 1 .. Len(sel) |-> sel[n].cb]

\* C10: in every Button_Update, a configured button's next runtime state and
\* the callbacks invoked with its index are determined by its own previous
\* state and its own reading alone; the other buttons' readings play no part.
C10_NoCrossTalk ==
  [][ret'.op = "Button_Update" =>
       \A k \in Keys :
         IF k < init.count
         THEN LET r == ButtonTick(inst[k], hist'[k][Len(hist'[k])],
                                  BTN_DEBOUNCE_TIME(init),
                                  BTN_LONG_PRESS_TIME(init, inst, k), init)
              IN  inst'[k] = r.b /\ CallsOf(calls', k) = r.ev
         ELSE inst'[k] = inst[k] /\ CallsOf(calls', k) = << >>]_vars

\* button 1 fires its own callback on a tick where button 0, with other
\* readings, fires none
C10_Witness ==
  /\ this = "init" /\ init.count = 2 /\ ticks > 0
  /\ hist[0] # hist[1]
  /\ calls = <<[cb |-> "short_release", key |-> 1]>>
  /\ inst[0].locked = 1

\* the last reading of button k
LastRead(k) == hist[k][Len(hist[k])]

\* C11: one Button_Update reads the pins of buttons 0..count-1 once each, in
\* that order, and invokes at most one callback per button, in strictly
\* increasing button index, each with the index of the button that made the
\* transition the callback reports.
C11_UpdateOrder ==
  ret.op = "Button_Update" =>
    /\ reads = [n \in 1 .. init.count |-> n - 1]
    /\ \A n \in 1 .. Len(calls), m \in 1 .. Len(calls) :
         n < m => calls[n].key < calls[m].key
    /\ \A n \in 1 .. Len(calls) :
         LET k == calls[n].key
         IN  /\ k < init.count
             /\ calls[n].cb = "short_release" =>
                  ~LastRead(k) /\ inst[k].locked = 0 /\ inst[k].act = BTN_STATE_SHORT
             /\ calls[n].cb = "long_release" =>
                  ~LastRead(k) /\ inst[k].locked = 0 /\ inst[k].act = BTN_STATE_LONG
             /\ calls[n].cb = "long_press" =>
                  LastRead(k) /\ inst[k].locked = 1 /\ inst[k].act = BTN_STATE_LONG

\* both buttons finalize a release on the same tick
C11_Witness ==
  /\ ret.op = "Button_Update" /\ init.count = 2
  /\ Len(calls) = 2 /\ calls[1].key = 0 /\ calls[2].key = 1

\* length of the run of readings equal to v that ends history h
RunOf(h, v) ==
  LET other == {n \in 1 .. Len(h) : h[n] # v}
  IN  IF other = {} THEN Len(h)
      ELSE Len(h) - (CHOOSE n \in other : \A m \in other : m <= n)

\* C12: from a state where a button is unlocked and reads released, a pulse
\* of fewer than D pressed readings never sets locked and invokes no
\* callback: locked is set only at the end of a run of at least D pressed
\* readings, and a tick that leaves the button unlocked invokes nothing.
C12_PressDebounce ==
  [][ret'.op = "Button_Update" =>
       \A k \in Keys : (k < init.count /\ inst[k].locked = 0) =>
         LET run == RunOf(hist'[k], TRUE)
         IN  /\ (inst'[k].locked = 1 /\ run < Len(hist'[k])) =>
                  run >= BTN_DEBOUNCE_TIME(init)
             /\ inst'[k].locked = 0 => CallsOf(calls', k) = << >>]_vars

\* C13: from a state where a button is locked and reads pressed, a glitch of
\* fewer than D released readings never clears locked and invokes no release
\* callback: locked is cleared only at the end of a run of at least D
\* released readings, and a released tick that keeps the lock invokes nothing.
C13_ReleaseDebounce ==
  [][ret'.op = "Button_Update" =>
       \A k \in Keys : (k < init.count /\ inst[k].locked = 1) =>
         LET run == RunOf(hist'[k], FALSE)
         IN  /\ inst'[k].locked = 0 => run >= BTN_DEBOUNCE_TIME(init)
             /\ (inst'[k].locked = 1 /\ run > 0) => CallsOf(calls', k) = << >>]_vars

\* C14: every change Button_Update makes to a button's active state is
\* NONE -> SHORT, NONE -> LONG, SHORT -> LONG, or a reset to NONE on a
\* released reading; in particular never LONG -> SHORT.
C14_ActTransitions ==
  [][ret'.op = "Button_Update" =>
       \A k \in Keys : (k < init.count /\ inst'[k].act # inst[k].act) =>
         \/ <<inst[k].act, inst'[k].act>> \in
              {<<BTN_STATE_NONE, BTN_STATE_SHORT>>,
               <<BTN_STATE_NONE, BTN_STATE_LONG>>,
               <<BTN_STATE_SHORT, BTN_STATE_LONG>>}
         \/ (inst'[k].act = BTN_STATE_NONE /\ ~hist'[k][Len(hist'[k])])]_vars

\* the configuration with the callback pointers replaced by cb
WithCallbacks(cfg, cb) ==
  [cfg EXCEPT !.short_release = cb.short_release,
              !.long_release  = cb.long_release,
              !.long_press    = cb.long_press]

\* C15: callbacks are optional and play no part in the state machine: in
\* every Button_Update, each configured button's next runtime state is the
\* one the tick produces under any other subset of registered callbacks, and
\* the callbacks invoked are those of the all-registered run whose pointer
\* is not NULL.
C15_CallbacksOptional ==
  [][ret'.op = "Button_Update" =>
       \A k \in Keys : k < init.count =>
         LET pressed == hist'[k][Len(hist'[k])]
             D == BTN_DEBOUNCE_TIME(init)
             T == BTN_LONG_PRESS_TIME(init, inst, k)
             full == ButtonTick(inst[k], pressed, D, T,
                                WithCallbacks(init, CHOOSE cb \in CbAll : TRUE))
         IN  /\ \A cb \in CbAny :
                  ButtonTick(inst[k], pressed, D, T, WithCallbacks(init, cb)).b = inst'[k]
             /\ CallsOf(calls', k) = SelectSeq(full.ev, LAMBDA c : init[c])]_vars

C15_Witness ==
  /\ ret.op = "Button_Update"
  /\ ~init.long_press /\ ~init.short_release /\ init.long_release
  /\ inst[0].act = BTN_STATE_LONG
  /\ inst[0].locked = 0
  /\ calls = <<[cb |-> "long_release", key |-> 0]>>
  /\ fired[0].long_press = 0

\* what Button_Init fixes: the engine's bound configuration, the button
\* count, the instance array, the timing parameters, and each button's port,
\* pin and long-press time
Binding ==
  [this              |-> this,
   instance          |-> init.instance,
   count             |-> init.count,
   process_time_ms   |-> init.process_time_ms,
   debounce_time_ms  |-> init.debounce_time_ms,
   long_press_def_ms |-> init.long_press_def_ms,
   buttons           |-> [k \in Keys |-> [port |-> inst[k].port, pin |-> inst[k].pin,
                             long_press_time_ms |-> inst[k].long_press_time_ms]]]

\* C16: a successful Button_Init(init, instance, count) leaves init->instance
\* bound to the supplied array and init->count equal to count; no
\* Button_Update or Button_EventGet changes the count, the binding, the
\* timing parameters or any button's port, pin or long_press_time_ms: a step
\* that changes any of them is a successful Button_Init.
C16_BindingFixed ==
  [][/\ \A initNull \in BOOLEAN, instNull \in BOOLEAN, count \in 0 .. InstLen :
          (Button_Init(initNull, instNull, count) /\ ret'.val = 0) =>
            (this' = "init" /\ init'.instance = "inst" /\ init'.count = count)
     /\ ret'.op \in {"Button_Update", "Button_EventGet"} => Binding' = Binding
     /\ Binding' # Binding => (ret'.op = "Button_Init" /\ ret'.val = 0)]_vars

C16_Witness ==
  /\ ret.op = "Button_Update"
  /\ ticks = MaxTicks
  /\ init.instance = "inst" /\ init.count = InstLen
  /\ inst[0].act = BTN_STATE_SHORT
  /\ inst[1].locked = 1
  /\ inst[1].pin = Pins[1] /\ inst[1].port = Ports[1]

\* C17: with debounce ticks D >= 1, a pressed reading of an unlocked button
\* whose lock_count is c < D raises lock_count to c + 1 and sets locked
\* exactly when that reaches D, so consecutive pressed readings lock the
\* button on the (D - c)-th of them with lock_count = D; locked is never set
\* by a released reading and never while lock_count < D.
C17_LockAcquisition ==
  [][ret'.op = "Button_Update" =>
       \A k \in Keys : (k < init.count /\ BTN_DEBOUNCE_TIME(init) >= 1) =>
         LET D == BTN_DEBOUNCE_TIME(init)
             pressed == hist'[k][Len(hist'[k])]
         IN  /\ (inst[k].locked = 0 /\ inst[k].lock_count < D /\ pressed) =>
                  /\ inst'[k].lock_count = inst[k].lock_count + 1
                  /\ inst'[k].locked = 1 <=> inst'[k].lock_count = D
             /\ (inst[k].locked = 0 /\ inst'[k].locked = 1) =>
                  (pressed /\ inst'[k].lock_count = D)
             /\ (inst[k].locked = 0 /\ RunOf(hist'[k], TRUE) >= D) =>
                  inst'[k].locked = 1]_vars

\* a button whose lock_count was already 1 locks on the first of two pressed
\* readings needed from zero
C17_Witness ==
  /\ ret.op = "Button_Update"
  /\ BTN_DEBOUNCE_TIME(init) = 2
  /\ hist[0] = <<TRUE, FALSE, TRUE>>
  /\ inst[0].locked = 1
  /\ inst[0].lock_count = 2

\* C18: on a tick where a button is locked, reads released and has
\* lock_count > 0, the only change to that button is lock_count decreasing
\* by exactly 1: locked, long_count, previous state and active state (and
\* the button's configuration) stay as they are and no callback is invoked.
C18_ReleaseDebounceTick ==
  [][ret'.op = "Button_Update" =>
       \A k \in Keys :
         (/\ k < init.count
          /\ inst[k].locked = 1
          /\ inst[k].lock_count > 0
          /\ ~hist'[k][Len(hist'[k])]) =>
           /\ inst'[k] = [inst[k] EXCEPT !.lock_count = inst[k].lock_count - 1]
           /\ CallsOf(calls', k) = << >>]_vars

C18_Witness ==
  /\ ret.op = "Button_Update"
  /\ BTN_DEBOUNCE_TIME(init) = 2
  /\ hist[0] = <<TRUE, TRUE, TRUE, FALSE>>
  /\ inst[0].locked = 1
  /\ inst[0].lock_count = 1
  /\ inst[0].long_count = 2
  /\ calls = << >>

\* a configured button whose long-press threshold is at least one tick
Thresholded(k) ==
  this = "init" /\ k < init.count /\ BTN_LONG_PRESS_TIME(init, inst, k) >= 1

\* C19: for a button whose long-press threshold T is at least one tick, in
\* every reachable state long_count >= T implies active state = Long; hence,
\* with all callbacks registered, each tick that clears locked invokes
\* exactly one release callback - short_release, setting the active state to
\* Short, when long_count < T and long_release otherwise - and no other tick
\* invokes a release callback.
C19_FinalizationClassifies ==
  /\ [](\A k \in Keys : Thresholded(k) =>
          (inst[k].long_count >= BTN_LONG_PRESS_TIME(init, inst, k) =>
             inst[k].act = BTN_STATE_LONG))
  /\ [][ret'.op = "Button_Update" =>
         \A k \in Keys : (Thresholded(k) /\ AllCallbacks) =>
           IF inst[k].locked = 1 /\ inst'[k].locked = 0
           THEN IF inst[k].long_count < BTN_LONG_PRESS_TIME(init, inst, k)
                THEN /\ CallsOf(calls', k) = <<"short_release">>
                     /\ inst'[k].act = BTN_STATE_SHORT
                ELSE /\ CallsOf(calls', k) = <<"long_release">>
                     /\ inst'[k].act = BTN_STATE_LONG
           ELSE \A n \in 1 .. Len(CallsOf(calls', k)) :
                  CallsOf(calls', k)[n] = "long_press"]_vars

C19_Witness ==
  /\ ret.op = "Button_Update"
  /\ AllCallbacks
  /\ Thresholded(0)
  /\ calls = <<[cb |-> "long_release", key |-> 0]>>
  /\ inst[0].locked = 0
  /\ inst[0].long_count >= BTN_LONG_PRESS_TIME(init, inst, 0)
  /\ inst[0].act = BTN_STATE_LONG
  /\ fired[0].short_release > 0

\* max(D, 1) for the debounce tick count D
LockCountMax == IF BTN_DEBOUNCE_TIME(init) >= 1 THEN BTN_DEBOUNCE_TIME(init) ELSE 1

\* C20: in every reachable state a configured button has
\* 0 <= lock_count <= max(D, 1), and lock_count < max(D, 1) while unlocked;
\* a Button_Update moves lock_count by at most one, up only from below
\* max(D, 1) and down only from above 0, so the 8-bit counter never wraps.
C20_LockCountBounds ==
  /\ [](this = "init" =>
          \A k \in Keys : k < init.count =>
            /\ 0 <= inst[k].lock_count
            /\ inst[k].lock_count <= LockCountMax
            /\ inst[k].locked = 0 => inst[k].lock_count < LockCountMax)
  /\ [][ret'.op = "Button_Update" =>
         \A k \in Keys : k < init.count =>
           \/ inst'[k].lock_count = inst[k].lock_count
           \/ /\ inst'[k].lock_count = inst[k].lock_count + 1
              /\ inst[k].lock_count < LockCountMax
           \/ /\ inst'[k].lock_count = inst[k].lock_count - 1
              /\ inst[k].lock_count > 0]_vars

\* D = 0: a second press locks again with lock_count back at max(D, 1) = 1
C20_Witness ==
  /\ ret.op = "Button_Update"
  /\ BTN_DEBOUNCE_TIME(init) = 0
  /\ hist[0] = <<TRUE, FALSE, FALSE, TRUE>>
  /\ inst[0].locked = 1
  /\ inst[0].lock_count = LockCountMax

\* index in h of the m-th pressed reading, 0 if there are fewer than m
NthPressed(h, m) ==
  LET at == {n \in 1 .. Len(h) : h[n] /\ Cardinality({j \in 1 .. n : h[j]}) = m}
  IN  IF at = {} THEN 0 ELSE CHOOSE n \in at : TRUE

\* number of released readings of h after index n
ReleasedAfter(h, n) == Cardinality({j \in (n + 1) .. Len(h) : ~h[j]})

\* C21: a lock is taken with lock_count = max(D, 1); while the button is
\* locked a pressed reading leaves lock_count alone, a released reading
\* lowers it by one, and the released reading that finds it 0 clears the
\* lock.  So the lock is cleared on the (max(D, 1) + 1)-th released reading
\* after the locking tick, consecutive or not: for the first lock of a run
\* (taken on the max(D, 1)-th pressed reading) a release callback has been
\* invoked exactly when that many released readings have followed it.
C21_ReleasedReadingsPerLock ==
  /\ [](this = "init" =>
          \A k \in Keys : (Complete(k) /\ AllCallbacks /\ Thresholded(k)) =>
            LET lockAt == NthPressed(hist[k], LockCountMax)
                rel == ReleasedAfter(hist[k], lockAt)
                released == fired[k].short_release + fired[k].long_release
            IN  IF lockAt = 0
                THEN inst[k].locked = 0 /\ released = 0
                ELSE /\ released >= 1 <=> rel >= LockCountMax + 1
                     /\ rel <= LockCountMax =>
                          (inst[k].locked = 1 /\ inst[k].lock_count = LockCountMax - rel))
  /\ [][ret'.op = "Button_Update" =>
         \A k \in Keys : k < init.count =>
           LET pressed == hist'[k][Len(hist'[k])]
           IN  IF inst[k].locked = 0
               THEN inst'[k].locked = 1 => inst'[k].lock_count = LockCountMax
               ELSE IF pressed
                    THEN inst'[k].locked = 1 /\ inst'[k].lock_count = inst[k].lock_count
                    ELSE IF inst[k].lock_count > 0
                         THEN /\ inst'[k].locked = 1
                              /\ inst'[k].lock_count = inst[k].lock_count - 1
                         ELSE inst'[k].locked = 0]_vars

\* three released readings separated by pressed ones clear a lock taken with D = 2
C21_Witness ==
  /\ ret.op = "Button_Update"
  /\ AllCallbacks
  /\ BTN_DEBOUNCE_TIME(init) = 2
  /\ hist[0] = <<TRUE, TRUE, FALSE, TRUE, FALSE, TRUE, FALSE>>
  /\ inst[0].locked = 0
  /\ Len(calls) = 1

\* C22: long_press is invoked for a button on a tick only if the button's
\* raw input read pressed on each of the T most recent ticks, the current
\* one included, T being the button's long-press tick threshold.
C22_LongPressContinuousHold ==
  [][ret'.op = "Button_Update" =>
       \A k \in Keys :
         (k < init.count /\ \E n \in 1 .. Len(calls') :
                              calls'[n] = [cb |-> "long_press", key |-> k]) =>
           RunOf(hist'[k], TRUE) >= BTN_LONG_PRESS_TIME(init, inst, k)]_vars

\* classification of the reading of the tick before the next Button_Update
PrevReading(k) ==
  IF hist[k] # << >> /\ LastRead(k) THEN BTN_STATE_SHORT ELSE BTN_STATE_NONE

\* C23: between Button_Update calls each configured button's previous-state
\* field is the classification of its raw reading on the last tick (Short if
\* it read pressed, None if it read released, None right after init), and
\* long_count is incremented only on a tick whose predecessor read pressed.
C23_PrewIsPreviousReading ==
  /\ [](this = "init" => \A k \in Keys : k < init.count => inst[k].prew = PrevReading(k))
  /\ [][ret'.op = "Button_Update" =>
         \A k \in Keys : (k < init.count /\ inst'[k].long_count = inst[k].long_count + 1) =>
           PrevReading(k) = BTN_STATE_SHORT]_vars

\* no Button_Update lowers a button's active state to BTN_STATE_NONE
UpdateKeepsAct ==
  ret'.op = "Button_Update" =>
    \A k \in Keys : inst[k].act # BTN_STATE_NONE => inst'[k].act # BTN_STATE_NONE

C25_LongHoldStaysLong ==
  [][(ret'.op = "Button_Update" /\ fired[0].long_press >= 1) =>
       /\ hist'[0][Len(hist'[0])] =>
            inst'[0].long_count >= BTN_LONG_PRESS_TIME(init, inst, 0)
       /\ (inst[0].locked = 1 /\ inst'[0].locked = 0) =>
            /\ CallsOf(calls', 0) = <<"long_release">>
            /\ inst'[0].act = BTN_STATE_LONG]_vars

\* the readings port_read returned in the Button_Update just taken
LastRaw == [k \in Keys |-> k < init.count /\ hist'[k][Len(hist'[k])]]

\* C26: state is committed before its callback runs: when short_release(i)
\* is invoked button i is already unlocked and Button_EventGet(i) returns
\* SHORT; when long_press(i) or long_release(i) is invoked
\* Button_EventGet(i) returns LONG; buttons above i still show their
\* pre-tick state and buttons below i their post-tick state.
C26_CommitBeforeCallback ==
  [][ret'.op = "Button_Update" =>
       LET r == UpdateLoop(0, inst, << >>, LastRaw)
       IN  /\ r.inst = inst' /\ r.calls = calls' /\ Len(r.seen) = Len(calls')
           /\ \A n \in 1 .. Len(calls') :
                LET i == calls'[n].key
                    v == r.seen[n]
                    get == IF i >= init.count THEN 0 ELSE v[i].act
                IN  /\ calls'[n].cb = "short_release" =>
                         (v[i].locked = 0 /\ get = BTN_STATE_SHORT)
                    /\ calls'[n].cb \in {"long_press", "long_release"} =>
                         get = BTN_STATE_LONG
                    /\ calls'[n].cb = "long_release" => v[i].locked = 0
                    /\ \A k \in Keys : k > i => v[k] = inst[k]
                    /\ \A k \in Keys : k < i => v[k] = inst'[k]]_vars

\* button 0 finalizes a long press and button 1 a short press in the same
\* Button_Update
C26_Witness ==
  /\ ret.op = "Button_Update"
  /\ calls = <<[cb |-> "long_release", key |-> 0], [cb |-> "short_release", key |-> 1]>>
  /\ fired[0].long_press > 0
  /\ inst[0].act = BTN_STATE_LONG /\ inst[1].act = BTN_STATE_SHORT
  /\ hist[1] = <<FALSE, FALSE, TRUE, FALSE, FALSE>>

\* C27: within one Button_Update each button's active state changes at most
\* once, so a Button_EventGet(i) that runs at any point of a Button_Update
\* in progress returns the value the active state had before that update or
\* the value it has after it.
C27_QueryDuringUpdate ==
  [][ret'.op = "Button_EventGet_In_Update" =>
       LET mem == <<inst>> \o UpdateStores(0, inst, LastRaw)
       IN  /\ mem[Len(mem)] = inst'
           /\ \A k \in Keys :
                Cardinality({n \in 1 .. (Len(mem) - 1) :
                               mem[n + 1][k].act # mem[n][k].act}) <= 1
           /\ \A key \in Keys :
                ret'.key = key => ret'.val \in {EventGet(key), EventGet(key)'}]_vars

\* a query during the update that sets button 1 to LONG still read NONE
C27_Witness ==
  /\ ret = [op |-> "Button_EventGet_In_Update", val |-> BTN_STATE_NONE, key |-> 1]
  /\ init.count = InstLen
  /\ inst[1].act = BTN_STATE_LONG
  /\ calls = <<[cb |-> "long_press", key |-> 1]>>

\* C28: after max(D, 1) + 2 consecutive released readings a configured
\* button is unlocked with long_count = 0, whatever state the readings
\* started from; a released tick invokes at most one callback for the
\* button, only when it clears the lock, an unlocked button stays unlocked
\* and silent on released readings, and no callback is invoked from the
\* (max(D, 1) + 2)-th released reading on.
C28_ReturnToIdle ==
  /\ [](this = "init" =>
          \A k \in Keys : (k < init.count /\ RunOf(hist[k], FALSE) >= LockCountMax + 2) =>
            (inst[k].locked = 0 /\ inst[k].long_count = 0))
  /\ [][ret'.op = "Button_Update" =>
         \A k \in Keys : (k < init.count /\ ~hist'[k][Len(hist'[k])]) =>
           /\ Len(CallsOf(calls', k)) <= 1
           /\ CallsOf(calls', k) # << >> =>
                /\ CallsOf(calls', k)[1] \in {"short_release", "long_release"}
                /\ inst[k].locked = 1 /\ inst'[k].locked = 0
           /\ inst[k].locked = 0 => (inst'[k].locked = 0 /\ CallsOf(calls', k) = << >>)
           /\ RunOf(hist'[k], FALSE) >= LockCountMax + 2 => CallsOf(calls', k) = << >>]_vars

\* a long hold under D = 2, released for four ticks
C28_Witness ==
  /\ ret.op = "Button_Update"
  /\ AllCallbacks
  /\ BTN_DEBOUNCE_TIME(init) = 2
  /\ hist[0] = <<TRUE, TRUE, TRUE, TRUE, FALSE, FALSE, FALSE, FALSE>>
  /\ inst[0].locked = 0 /\ inst[0].long_count = 0
  /\ fired[0].long_release = 1
  /\ fired[0].short_release = 0

\* the released branch with the inner `0 == lock_count` test taken out
ReleasedTick_GuardRemoved(b, D, T, cfg) ==
  IF b.locked # 0
  THEN IF b.lock_count # 0
       THEN [b |-> [b EXCEPT !.lock_count = b.lock_count - 1], ev |-> << >>]
       ELSE IF b.long_count < T
            THEN [b  |-> [b EXCEPT !.locked = 0, !.act = BTN_STATE_SHORT],
                  ev |-> Invoke(cfg, "short_release")]
            ELSE IF b.act = BTN_STATE_LONG
                 THEN [b  |-> [b EXCEPT !.locked = 0],
                       ev |-> Invoke(cfg, "long_release")]
                 ELSE [b |-> [b EXCEPT !.locked = 0], ev |-> << >>]
  ELSE [b |-> [b EXCEPT !.long_count = 0], ev |-> << >>]

\* C29: the short-release guard is redundant: on every tick that clears the
\* lock with long_count below the threshold lock_count is 0, and on every
\* released tick the state machine without the inner `lock_count == 0` test
\* yields the same next state and the same callbacks as Button_Update.
C29_GuardRedundant ==
  [][ret'.op = "Button_Update" =>
       \A k \in Keys : (k < init.count /\ ~hist'[k][Len(hist'[k])]) =>
         LET D == BTN_DEBOUNCE_TIME(init)
             T == BTN_LONG_PRESS_TIME(init, inst, k)
             r == ReleasedTick_GuardRemoved(inst[k], D, T, init)
         IN  /\ inst'[k] = r.b
             /\ CallsOf(calls', k) = r.ev
             /\ (inst[k].locked = 1 /\ inst'[k].locked = 0 /\ inst[k].long_count < T) =>
                  inst[k].lock_count = 0]_vars

C29_Witness ==
  /\ ret.op = "Button_Update"
  /\ BTN_DEBOUNCE_TIME(init) = 2
  /\ hist[0] = <<TRUE, TRUE, FALSE, FALSE, FALSE>>
  /\ calls = <<[cb |-> "short_release", key |-> 0]>>
  /\ inst[0].locked = 0
  /\ inst[0].lock_count = 0
  /\ inst[0].act = BTN_STATE_SHORT

====
